---- MODULE Spec2Model ----
(***************************************************************************)
(* Model of notion_dedupe.py: paginated fetch of a Notion database,        *)
(* projection of the pages, grouping of the pages by title, selection of   *)
(* the page to keep, and archival of the others, under the three run modes *)
(* (--dry-run, --auto, interactive).                                       *)
(*                                                                         *)
(* Strings are sequences of one-character strings, so that strip(),        *)
(* lower() and the lexicographic comparison of created_time are computed   *)
(* rather than assumed.                                                    *)
(***************************************************************************)
EXTENDS Integers, Sequences, FiniteSets, TLC

VARIABLES
    dry_run,        \* args.dry_run
    auto,           \* args.auto
    pc,             \* position of main()
    has_more,       \* get_all_pages: loop flag
    start_cursor,   \* get_all_pages: cursor of the next request
    all_pages,      \* raw pages accumulated by get_all_pages
    requests,       \* history of the POST .../query calls: cursor sent, outcome
    pages_info,     \* projected pages (input of find_duplicates)
    duplicates,     \* result of find_duplicates, in dict insertion order
    confirm,        \* line read by input(); Unread before the prompt, EOF at end of input
    gi,             \* executor: index of the current group
    ri,             \* executor: index in the current group's remove list
    archive_log,    \* history of the PATCH calls: page id, outcome
    responses,      \* history of the answers to the query calls, where recorded
    store,          \* the pages of the database, where the store is modelled
    run             \* number of the run of the script against the store

\* what is outside the script: the store and the record of its answers
env == <<responses, store, run>>

vars == <<dry_run, auto, pc, has_more, start_cursor, all_pages, requests,
          pages_info, duplicates, confirm, gi, ri, archive_log, env>>

----------------------------------------------------------------------------
(* Bounds *)

MaxLen == 3        \* longest input sequence given to find_duplicates alone
MaxRecords == 4    \* most raw pages the store returns in one run
MaxPages == 2      \* most query requests the store answers in one run
MaxTraced == 2     \* most raw pages returned when the answers are recorded
MaxStore == 4      \* most pages of the database where the store is modelled

----------------------------------------------------------------------------
(* Strings *)

\* a cursor is a natural number: 0 stands for None (no cursor), n > 0 for
\* the token the store hands out with the n-th page it serves
None == 0
\* values of confirm that are no line of input: nothing read yet, end of input
Unread == <<"unread">>
EOF == <<"EOF">>

Whitespace == {" ", "\t"}

CodePoint ==
    (" " :> 32) @@ ("-" :> 45) @@ ("0" :> 48) @@ ("1" :> 49) @@ ("2" :> 50) @@
    ("3" :> 51) @@ ("4" :> 52) @@ ("5" :> 53) @@ ("N" :> 78) @@ ("Y" :> 89) @@
    ("a" :> 97) @@ ("b" :> 98) @@ ("e" :> 101) @@ ("n" :> 110) @@
    ("s" :> 115) @@ ("y" :> 121)

\* str < str: lexicographic on code points, a proper prefix is smaller
RECURSIVE StrLess(_, _)
StrLess(a, b) ==
    IF b = <<>> THEN FALSE
    ELSE IF a = <<>> THEN TRUE
    ELSE IF CodePoint[Head(a)] # CodePoint[Head(b)]
         THEN CodePoint[Head(a)] < CodePoint[Head(b)]
         ELSE StrLess(Tail(a), Tail(b))

RECURSIVE lstrip(_)
lstrip(s) ==
    IF s # <<>> /\ Head(s) \in Whitespace THEN lstrip(Tail(s)) ELSE s

RECURSIVE rstrip(_)
rstrip(s) ==
    IF s # <<>> /\ s[Len(s)] \in Whitespace
    THEN rstrip(SubSeq(s, 1, Len(s) - 1)) ELSE s

\* str.strip()
strip(s) == rstrip(lstrip(s))

\* str.lower()
lower(s) ==
    [i \in 1..Len(s) |->
        CASE s[i] = "Y" -> "y"
          [] s[i] = "N" -> "n"
          [] OTHER -> s[i]]

\* "".join(segments)
RECURSIVE join(_)
join(segments) ==
    IF segments = <<>> THEN <<>> ELSE Head(segments) \o join(Tail(segments))

\* a key of a JSON object that may be absent: <<>> when absent, <<v>> when
\* present with the value v; dict.get(key, default)
dict_get(field, default) == IF field = <<>> THEN default ELSE field[1]

\* sequences over S of length at most n
SeqUpTo(S, n) == UNION {[1..k -> S] : k \in 0..n}

----------------------------------------------------------------------------
(* extract_page_info *)

\* A value of a raw page is a record whose field t is its kind: "null",
\* "str" (v is the string, or the number that stands for an identity),
\* "list" (v is the sequence of items) or "dict" (the other fields of the
\* record are the keys the object has).  A raw page is a dict.
Null == [t |-> "null"]
Str(s) == [t |-> "str", v |-> s]
List(l) == [t |-> "list", v |-> l]

\* {}: a dict without keys
EmptyDict == [t |-> "dict"]

\* None where the script expects a string
NoneStr == <<"None">>

\* d.get(key, default) on a dict d; a key whose value is null yields null
j_get(d, key, default) == IF key \in DOMAIN d THEN d[key] ELSE default

\* the truth value of x in "if x:" is False
Falsy(x) ==
    \/ x.t = "null"
    \/ x.t \in {"str", "list"} /\ x.v = <<>>
    \/ x = EmptyDict

\* the Python value of a string field: None when it is null
value_of(x) == IF x.t = "null" THEN NoneStr ELSE x.v

\* outcome of a step of the projection: the exception raised, or a value
Raise(e) == [err |-> e]
Ok(x) == [err |-> "", val |-> x]

\* page.get("properties", {}).get(name, {}): .get on a properties value that
\* is no dict raises AttributeError
property_of(page, name) ==
    LET properties == j_get(page, "properties", EmptyDict)
    IN IF properties.t # "dict" THEN Raise("AttributeError")
       ELSE Ok(j_get(properties, name, EmptyDict))

\* if prop.get(key): "".join([t.get("plain_text", "") for t in prop[key]]),
\* else "": .get on a property or on an item that is no dict raises
\* AttributeError, join on a plain_text that is no string raises TypeError
text_of(prop, key) ==
    IF prop.t # "dict" THEN Raise("AttributeError")
    ELSE LET items == j_get(prop, key, Null)
         IN IF Falsy(items) THEN Ok(<<>>)
            ELSE IF items.t # "list" THEN Raise("AttributeError")
            ELSE IF \E i \in 1..Len(items.v) : items.v[i].t # "dict"
            THEN Raise("AttributeError")
            ELSE LET texts == [i \in 1..Len(items.v) |->
                                  j_get(items.v[i], "plain_text", Str(<<>>))]
                 IN IF \E i \in 1..Len(texts) : texts[i].t # "str"
                    THEN Raise("TypeError")
                    ELSE Ok(join([i \in 1..Len(texts) |-> texts[i].v]))

\* the title and the body of the page, or the exception of the first step
\* that raises
title_of(page) ==
    LET title_prop == property_of(page, "title_prop")
    IN IF title_prop.err # "" THEN title_prop
       ELSE text_of(title_prop.val, "title")

content_of(page) ==
    LET content_prop == property_of(page, "content_prop")
    IN IF content_prop.err # "" THEN content_prop
       ELSE text_of(content_prop.val, "rich_text")

\* the outcome of extract_page_info(page): the exception it raises or the
\* record it returns; page["id"] raises KeyError when the page has no id,
\* then the title is read, then the body
extract_page_info(page) ==
    IF "id" \notin DOMAIN page THEN Raise("KeyError")
    ELSE LET title == title_of(page)
         IN IF title.err # "" THEN title
            ELSE LET content == content_of(page)
                 IN IF content.err # "" THEN content
                    ELSE Ok([id |-> value_of(page.id),
                             title |-> strip(title.val),
                             content |-> strip(content.val),
                             created_time |->
                                value_of(j_get(page, "created_time", Str(<<>>))),
                             url |-> value_of(j_get(page, "url", Str(<<>>)))])

----------------------------------------------------------------------------
(* find_duplicates *)

\* variant: a title seen for the first time is entered at the front
by_title_append_front(by_title, page) ==
    IF \E i \in 1..Len(by_title) : by_title[i].title = page.title
    THEN [i \in 1..Len(by_title) |->
            IF by_title[i].title = page.title
            THEN [by_title[i] EXCEPT !.page_list = Append(@, page)]
            ELSE by_title[i]]
    ELSE <<[title |-> page.title, page_list |-> <<page>>]>> \o by_title

\* by_title[page["title"]].append(page) on an insertion-ordered dict,
\* held as a sequence of <<title, page_list>> entries
by_title_append(by_title, page) ==
    IF \E i \in 1..Len(by_title) : by_title[i].title = page.title
    THEN [i \in 1..Len(by_title) |->
            IF by_title[i].title = page.title
            THEN [by_title[i] EXCEPT !.page_list = Append(@, page)]
            ELSE by_title[i]]
    ELSE Append(by_title, [title |-> page.title, page_list |-> <<page>>])

\* variant: pages with an empty title are grouped like the others
RECURSIVE group_by_title_keep_empty(_, _)
group_by_title_keep_empty(pages, by_title) ==
    IF pages = <<>> THEN by_title
    ELSE group_by_title_keep_empty(Tail(pages),
            by_title_append(by_title, Head(pages)))

\* the first loop of find_duplicates
RECURSIVE group_by_title(_, _)
group_by_title(pages, by_title) ==
    IF pages = <<>> THEN by_title
    ELSE group_by_title(Tail(pages),
            IF Head(pages).title # <<>>
            THEN by_title_append(by_title, Head(pages))
            ELSE by_title)

\* variant: x goes before the elements whose key equals its own, so that among
\* equal keys the last one seen comes first
sorted_insert_before_equal(sorted_pages, x) ==
    LET n == Cardinality({i \in 1..Len(sorted_pages) :
                 StrLess(x.created_time, sorted_pages[i].created_time)})
    IN SubSeq(sorted_pages, 1, n) \o <<x>> \o
       SubSeq(sorted_pages, n + 1, Len(sorted_pages))

\* one insertion of the stable descending sort: x goes after every element
\* whose key is not smaller than its own
sorted_insert(sorted_pages, x) ==
    LET n == Cardinality({i \in 1..Len(sorted_pages) :
                 ~StrLess(sorted_pages[i].created_time, x.created_time)})
    IN SubSeq(sorted_pages, 1, n) \o <<x>> \o
       SubSeq(sorted_pages, n + 1, Len(sorted_pages))

\* variant: only the first greatest element is moved to the front, the others
\* stay in the order of the input
max_first(page_list) ==
    IF page_list = <<>> THEN <<>>
    ELSE LET m == CHOOSE i \in 1..Len(page_list) :
                    /\ \A j \in 1..Len(page_list) :
                          ~StrLess(page_list[i].created_time,
                                   page_list[j].created_time)
                    /\ \A j \in 1..(i - 1) :
                          StrLess(page_list[j].created_time,
                                  page_list[i].created_time)
         IN <<page_list[m]>> \o SubSeq(page_list, 1, m - 1)
            \o SubSeq(page_list, m + 1, Len(page_list))

\* sorted(page_list, key=lambda x: x["created_time"], reverse=True)
RECURSIVE sorted_reverse(_)
sorted_reverse(page_list) ==
    IF page_list = <<>> THEN <<>>
    ELSE sorted_insert(sorted_reverse(SubSeq(page_list, 1, Len(page_list) - 1)),
                       page_list[Len(page_list)])

\* variant: a title carried by one page makes a group too
RECURSIVE select_duplicates_any_size(_)
select_duplicates_any_size(by_title) ==
    IF by_title = <<>> THEN <<>>
    ELSE LET e == Head(by_title)
             sorted_pages == sorted_reverse(e.page_list)
         IN (IF Len(e.page_list) > 0
             THEN <<[title |-> e.title,
                     keep |-> sorted_pages[1],
                     remove |-> Tail(sorted_pages)]>>
             ELSE <<>>) \o select_duplicates_any_size(Tail(by_title))

\* the second loop of find_duplicates
RECURSIVE select_duplicates(_)
select_duplicates(by_title) ==
    IF by_title = <<>> THEN <<>>
    ELSE LET e == Head(by_title)
             sorted_pages == sorted_reverse(e.page_list)
         IN (IF Len(e.page_list) > 1
             THEN <<[title |-> e.title,
                     keep |-> sorted_pages[1],
                     remove |-> Tail(sorted_pages)]>>
             ELSE <<>>) \o select_duplicates(Tail(by_title))

find_duplicates(pages) == select_duplicates(group_by_title(pages, <<>>))

----------------------------------------------------------------------------
(* Domains of the inputs *)

\* page identities of the store
Ids == {1, 2}

T_0101 == <<"2","0","2","4","-","0","1","-","0","1">>
T_0210 == <<"2","0","2","4","-","0","2","-","1","0">>
T_0315 == <<"2","0","2","4","-","0","3","-","1","5">>

\* created_time values given to find_duplicates alone
Times == {<<>>, T_0101, T_0210, T_0315}

\* titles given to find_duplicates alone
Titles == {<<>>, <<"a">>, <<"b">>}

ProjectedPages ==
    [id : Ids, title : Titles, content : {<<>>}, created_time : Times,
     url : {<<>>}]

\* created_time is a fixed attribute of a page of the store: a page that is
\* returned twice carries the same created_time both times
StoreCreatedTime(id) == IF id = 1 THEN T_0101 ELSE T_0315

\* raw pages the store may return; the title of a page may change between
\* two requests: page 1 has no title or the title " a", page 2 the title
\* " a" or "b"
\* a text segment of a title or of a body
Segment(s) == [t |-> "dict", plain_text |-> Str(s)]

\* the raw page of identity i whose title has the segments segs and whose
\* created_time is c, as the store returns it
RawPage(i, segs, c) ==
    [t |-> "dict",
     id |-> Str(i),
     properties |->
        [t |-> "dict",
         title_prop |->
            [t |-> "dict",
             title |-> List([k \in 1..Len(segs) |-> Segment(segs[k])])]],
     created_time |-> Str(c)]

\* what the store keeps of a page it may return: identity and title
StoreRows ==
    {<<1, <<>>>>, <<1, << <<" ">>, <<"a">> >> >>,
     <<2, << <<" ">>, <<"a">> >> >>, <<2, << <<"b">> >> >>}

\* the raw page the store returns for each row, as a table
RawPageOf ==
    [row \in StoreRows |-> RawPage(row[1], row[2], StoreCreatedTime(row[1]))]
        @@ <<>>

\* title and created_time a page of the modelled database may have
StoreEntries ==
    {<< <<>>, T_0101 >>, << << <<" ">>, <<"a">> >>, T_0101 >>,
     << << <<" ">>, <<"a">> >>, T_0315 >>, << << <<"b">> >>, T_0315 >>}

\* contents of the database where the store is modelled: a row holds what
\* the store keeps of a page; every page has its own identity (its
\* position), none is archived
StoreContents ==
    UNION {{[i \in 1..n |->
                [id |-> i, title |-> f[i][1], created_time |-> f[i][2],
                 archived |-> FALSE]] :
            f \in [1..n -> StoreEntries]} :
           n \in 0..MaxStore}

\* next_cursor fields the store may answer to the next request: the token of
\* the page it serves, or none
StoreCursors == {<<>>, <<Len(requests) + 1>>}

ConfirmInputs ==
    {<<" ", "Y", " ">>, <<"y", "e", "s">>, <<"n">>, <<>>}

Terminal == {"no_duplicates", "preview", "aborted", "done",
             "read_abort", "input_abort"}

----------------------------------------------------------------------------
(* query_database / get_all_pages *)

\* payload of query_database: start_cursor is sent only when it is truthy
query_payload(cursor) == IF cursor # None THEN cursor ELSE None

\* has_more fields the store may answer to the next request, absent
\* included: the store holds finitely many pages, the last request it
\* answers ends the listing
StoreHasMore ==
    IF Len(requests) + 1 < MaxPages
    THEN {<<TRUE>>, <<FALSE>>, <<>>}
    ELSE {<<FALSE>>, <<>>}

\* answers the store may give to the next request, with at most limit raw
\* pages over the run, each by the rows it lists; an answer that ends the
\* listing carries no cursor
StoreAnswers(limit) ==
    UNION {[rows : SeqUpTo(StoreRows, limit - Len(all_pages)),
            has_more : {h},
            next_cursor : IF h = <<TRUE>> THEN StoreCursors ELSE {<<>>}] :
           h \in StoreHasMore}

\* the body of the response that carries an answer
StoreResponse(answer) ==
    [results |-> [i \in 1..Len(answer.rows) |-> RawPageOf[answer.rows[i]]],
     has_more |-> answer.has_more,
     next_cursor |-> answer.next_cursor]

\* variant: the cursor of the answer is not taken over
get_all_pages_iteration_same_cursor(response) ==
    /\ pc = "fetch"
    /\ has_more
    /\ requests' = Append(requests,
          [start_cursor |-> query_payload(start_cursor), status |-> "ok"])
    /\ all_pages' = all_pages \o response.results
    /\ has_more' = dict_get(response.has_more, FALSE)
    /\ start_cursor' = start_cursor
    /\ pc' = IF has_more' THEN "fetch" ELSE "analyse"
    /\ UNCHANGED <<dry_run, auto, pages_info, duplicates, confirm, gi, ri,
                   archive_log>>

\* one iteration of the while loop whose request is answered by response;
\* when has_more comes back false or absent the loop ends and get_all_pages
\* returns to main
get_all_pages_iteration(response) ==
    /\ pc = "fetch"
    /\ has_more
    /\ requests' = Append(requests,
          [start_cursor |-> query_payload(start_cursor), status |-> "ok"])
    /\ all_pages' = all_pages \o response.results
    /\ has_more' = dict_get(response.has_more, FALSE)
    /\ start_cursor' = IF has_more'
                       THEN dict_get(response.next_cursor, None)
                       ELSE None
    /\ pc' = IF has_more' THEN "fetch" ELSE "analyse"
    /\ UNCHANGED <<dry_run, auto, pages_info, duplicates, confirm, gi, ri,
                   archive_log>>

\* an iteration in a run of the script
get_all_pages_ok ==
    /\ Len(requests) < MaxPages
    /\ \E answer \in StoreAnswers(MaxRecords) :
          get_all_pages_iteration(StoreResponse(answer))
    /\ UNCHANGED env

\* an iteration whose answer is recorded
get_all_pages_recorded ==
    /\ Len(requests) < MaxPages
    /\ \E answer \in StoreAnswers(MaxTraced) :
        /\ get_all_pages_iteration(StoreResponse(answer))
        /\ responses' = Append(responses, StoreResponse(answer))
    /\ UNCHANGED <<store, run>>

\* the pages a query lists, as raw pages: the store leaves the archived
\* ones out
RECURSIVE LivePages(_)
LivePages(rows) ==
    IF rows = <<>> THEN <<>>
    ELSE (IF Head(rows).archived THEN <<>>
          ELSE <<RawPage(Head(rows).id, Head(rows).title,
                         Head(rows).created_time)>>)
         \o LivePages(Tail(rows))

\* an iteration answered from the modelled store: the cursor is the number
\* of pages listed so far, the answer holds the next pages of the listing, at
\* least one unless none is left
get_all_pages_served ==
    /\ LET live == LivePages(store)
           offset == query_payload(start_cursor)
       IN \E k \in 0..(Len(live) - offset) :
            /\ k > 0 \/ Len(live) = offset
            /\ get_all_pages_iteration(
                  [results |-> SubSeq(live, offset + 1, offset + k),
                   has_more |-> <<offset + k < Len(live)>>,
                   next_cursor |-> IF offset + k < Len(live)
                                   THEN <<offset + k>> ELSE <<>>])
    /\ UNCHANGED env

\* variant: the failure of a request is swallowed and the pages fetched so
\* far are returned
get_all_pages_swallow ==
    /\ pc = "fetch"
    /\ has_more
    /\ Len(requests) < MaxPages
    /\ requests' = Append(requests,
          [start_cursor |-> query_payload(start_cursor), status |-> "error"])
    /\ pc' = "analyse"
    /\ has_more' = FALSE
    /\ start_cursor' = None
    /\ UNCHANGED <<env, dry_run, auto, all_pages, pages_info, duplicates, confirm,
                   gi, ri, archive_log>>

\* one iteration whose request fails: raise_for_status() raises, nothing
\* catches it, main ends with the exception
get_all_pages_raise ==
    /\ pc = "fetch"
    /\ has_more
    /\ Len(requests) < MaxPages
    /\ requests' = Append(requests,
          [start_cursor |-> query_payload(start_cursor), status |-> "error"])
    /\ pc' = "read_abort"
    /\ all_pages' = <<>>
    /\ has_more' = FALSE
    /\ start_cursor' = None
    /\ UNCHANGED <<env, dry_run, auto, pages_info, duplicates, confirm, gi, ri,
                   archive_log>>

----------------------------------------------------------------------------
(* main *)

\* variant: --auto does not skip the prompt
mode_gate_always_confirm(dups, dry, au) ==
    IF dups = <<>> THEN "no_duplicates"
    ELSE IF dry THEN "preview"
    ELSE "confirm"

\* variant: --auto is tested before --dry-run
mode_gate_auto_first(dups, dry, au) ==
    IF dups = <<>> THEN "no_duplicates"
    ELSE IF au THEN "archive"
    ELSE IF dry THEN "preview"
    ELSE "confirm"

\* variant: the emptiness of duplicates is tested only before the archive loop
mode_gate_late_empty_check(dups, dry, au) ==
    IF dry THEN "preview"
    ELSE IF ~au THEN "confirm"
    ELSE IF dups = <<>> THEN "no_duplicates"
    ELSE "archive"

\* the branches of main between find_duplicates and the archive loop
mode_gate(dups, dry, au) ==
    IF dups = <<>> THEN "no_duplicates"
    ELSE IF dry THEN "preview"
    ELSE IF ~au THEN "confirm"
    ELSE "archive"

\* projection, grouping, the summary and the mode branches
main_analyse ==
    /\ pc = "analyse"
    /\ LET infos == [i \in 1..Len(all_pages) |->
                        extract_page_info(all_pages[i])]
       IN IF \E i \in 1..Len(infos) : infos[i].err # ""
          THEN /\ pc' = "project_abort"
               /\ UNCHANGED <<pages_info, duplicates>>
          ELSE /\ pages_info' = [i \in 1..Len(infos) |-> infos[i].val]
               /\ duplicates' = find_duplicates(pages_info')
               /\ pc' = mode_gate(duplicates', dry_run, auto)
    /\ UNCHANGED <<env, dry_run, auto, has_more, start_cursor, all_pages, requests,
                   confirm, gi, ri, archive_log>>

\* variant: anything but 'n' confirms
confirmed_unless_no(line) == lower(strip(line)) # <<"n">>

\* confirm = input(...).strip().lower(); if confirm != 'y': return
confirmed(line) == lower(strip(line)) = <<"y">>

main_confirm ==
    /\ pc = "confirm"
    /\ \E line \in ConfirmInputs :
        /\ confirm' = line
        /\ pc' = IF confirmed(line) THEN "archive" ELSE "aborted"
    /\ UNCHANGED <<env, dry_run, auto, has_more, start_cursor, all_pages, requests,
                   pages_info, duplicates, gi, ri, archive_log>>

\* input() at end of input raises EOFError, which nothing catches
main_confirm_eof ==
    /\ pc = "confirm"
    /\ confirm' = EOF
    /\ pc' = "input_abort"
    /\ UNCHANGED <<env, dry_run, auto, has_more, start_cursor, all_pages, requests,
                   pages_info, duplicates, gi, ri, archive_log>>

\* variant: after one archive call the loop goes on with the next group
archive_advance_next_group ==
    /\ ri' = 1
    /\ gi' = gi + 1
    /\ pc' = IF gi < Len(duplicates) THEN "archive" ELSE "done"

\* the nested for loops advance to the next remove entry, or end
archive_advance ==
    IF ri < Len(duplicates[gi].remove)
    THEN /\ ri' = ri + 1
         /\ gi' = gi
         /\ pc' = "archive"
    ELSE /\ ri' = 1
         /\ gi' = gi + 1
         /\ pc' = IF gi < Len(duplicates) THEN "archive" ELSE "done"

\* variant: the database is queried again after a page is archived
main_archive_ok_requery ==
    /\ pc = "archive"
    /\ archive_log' = Append(archive_log,
          [id |-> duplicates[gi].remove[ri].id, ok |-> TRUE])
    /\ requests' = Append(requests, [start_cursor |-> None, status |-> "ok"])
    /\ archive_advance
    /\ UNCHANGED <<env, dry_run, auto, has_more, start_cursor, all_pages,
                   pages_info, duplicates, confirm>>

\* archive_page(page["id"]) returns
main_archive_ok ==
    /\ pc = "archive"
    /\ archive_log' = Append(archive_log,
          [id |-> duplicates[gi].remove[ri].id, ok |-> TRUE])
    /\ archive_advance
    /\ UNCHANGED <<env, dry_run, auto, has_more, start_cursor, all_pages, requests,
                   pages_info, duplicates, confirm>>

\* variant: the exception of a failed archive call leaves main
main_archive_fail_raise ==
    /\ pc = "archive"
    /\ archive_log' = Append(archive_log,
          [id |-> duplicates[gi].remove[ri].id, ok |-> FALSE])
    /\ pc' = "write_abort"
    /\ UNCHANGED <<env, dry_run, auto, has_more, start_cursor, all_pages, requests,
                   pages_info, duplicates, confirm, gi, ri>>

\* variant: a failed archive call ends the archive loop
main_archive_fail_break ==
    /\ pc = "archive"
    /\ archive_log' = Append(archive_log,
          [id |-> duplicates[gi].remove[ri].id, ok |-> FALSE])
    /\ pc' = "done"
    /\ UNCHANGED <<env, dry_run, auto, has_more, start_cursor, all_pages, requests,
                   pages_info, duplicates, confirm, gi, ri>>

\* archive_page(page["id"]) raises; except Exception reports it and the loop
\* goes on
main_archive_fail ==
    /\ pc = "archive"
    /\ archive_log' = Append(archive_log,
          [id |-> duplicates[gi].remove[ri].id, ok |-> FALSE])
    /\ archive_advance
    /\ UNCHANGED <<env, dry_run, auto, has_more, start_cursor, all_pages, requests,
                   pages_info, duplicates, confirm>>

----------------------------------------------------------------------------
(* A run of the script *)

Init ==
    /\ dry_run \in BOOLEAN
    /\ auto \in BOOLEAN
    /\ pc = "fetch"
    /\ has_more = TRUE
    /\ start_cursor = None
    /\ all_pages = <<>>
    /\ requests = <<>>
    /\ pages_info = <<>>
    /\ duplicates = <<>>
    /\ confirm = Unread
    /\ gi = 1
    /\ ri = 1
    /\ archive_log = <<>>
    /\ responses = <<>>
    /\ store = <<>>
    /\ run = 1

Next ==
    \/ get_all_pages_ok
    \/ get_all_pages_raise
    \/ main_analyse
    \/ main_confirm
    \/ main_confirm_eof
    \/ main_archive_ok
    \/ main_archive_fail

Spec == Init /\ [][Next]_vars

----------------------------------------------------------------------------
(* get_all_pages alone, the answers of the store recorded *)

InitFetch ==
    /\ dry_run = FALSE
    /\ auto = FALSE
    /\ pc = "fetch"
    /\ has_more = TRUE
    /\ start_cursor = None
    /\ all_pages = <<>>
    /\ requests = <<>>
    /\ pages_info = <<>>
    /\ duplicates = <<>>
    /\ confirm = Unread
    /\ gi = 1
    /\ ri = 1
    /\ archive_log = <<>>
    /\ responses = <<>>
    /\ store = <<>>
    /\ run = 1

NextFetch ==
    \/ get_all_pages_recorded
    \/ get_all_pages_raise

SpecFetch == InitFetch /\ [][NextFetch]_vars

----------------------------------------------------------------------------
(* Two runs with --auto against a store that nothing else modifies *)

\* the identities whose archive call succeeded
ArchivedOk == {archive_log[j].id : j \in {i \in 1..Len(archive_log) : archive_log[i].ok}}

\* the first run has ended; its successful PATCH calls have marked their
\* pages archived in the store, and the script is started again
next_run ==
    /\ run = 1
    /\ pc \in {"done", "no_duplicates"}
    /\ run' = 2
    /\ store' = [i \in 1..Len(store) |->
                    IF store[i].id \in ArchivedOk
                    THEN [store[i] EXCEPT !.archived = TRUE]
                    ELSE store[i]]
    /\ pc' = "fetch"
    /\ has_more' = TRUE
    /\ start_cursor' = None
    /\ all_pages' = <<>>
    /\ requests' = <<>>
    /\ pages_info' = <<>>
    /\ duplicates' = <<>>
    /\ confirm' = Unread
    /\ gi' = 1
    /\ ri' = 1
    /\ archive_log' = <<>>
    /\ UNCHANGED <<dry_run, auto, responses>>

InitConverge ==
    /\ dry_run = FALSE
    /\ auto = TRUE
    /\ pc = "fetch"
    /\ has_more = TRUE
    /\ start_cursor = None
    /\ all_pages = <<>>
    /\ requests = <<>>
    /\ pages_info = <<>>
    /\ duplicates = <<>>
    /\ confirm = Unread
    /\ gi = 1
    /\ ri = 1
    /\ archive_log = <<>>
    /\ responses = <<>>
    /\ store \in StoreContents
    /\ run = 1

NextConverge ==
    \/ get_all_pages_served
    \/ main_analyse
    \/ main_archive_ok
    \/ next_run

SpecConverge == InitConverge /\ [][NextConverge]_vars

----------------------------------------------------------------------------
(* extract_page_info alone, on raw pages with missing and null values *)

\* the dicts of docs, and each of them with the key set to each of values
Extend(docs, key, values) ==
    docs \cup {d @@ (key :> v) : d \in docs, v \in values}

\* the values of the title property
TitleProps ==
    {Null} \cup
    Extend({EmptyDict}, "title",
           {Null, List(<<>>), List(<<Segment(<<" ">>), Segment(<<"a">>)>>),
            List(<<Null>>), List(<<EmptyDict>>),
            List(<<[t |-> "dict", plain_text |-> Null]>>)})

\* the values of the body property
ContentProps ==
    {Null} \cup
    Extend({EmptyDict}, "rich_text", {List(<<Segment(<<"b", " ">>)>>)})

\* the values of properties
Properties ==
    {Null} \cup
    Extend(Extend({EmptyDict}, "title_prop", TitleProps),
           "content_prop", ContentProps)

\* the raw pages the projection is applied to
RawDocuments ==
    Extend(Extend(Extend(Extend({EmptyDict},
        "id", {Str(1)}),
        "properties", Properties),
        "created_time", {Null, Str(T_0101)}),
        "url", {Null, Str(<<"u">>)})

InitProjector ==
    /\ dry_run = FALSE
    /\ auto = FALSE
    /\ pc = "project"
    /\ has_more = FALSE
    /\ start_cursor = None
    /\ all_pages \in {<<page>> : page \in RawDocuments}
    /\ requests = <<>>
    /\ pages_info = <<>>
    /\ duplicates = <<>>
    /\ confirm = Unread
    /\ gi = 1
    /\ ri = 1
    /\ archive_log = <<>>
    /\ responses = <<>>
    /\ store = <<>>
    /\ run = 1

\* extract_page_info(page) returns the projected record
extract_page_info_return ==
    /\ pc = "project"
    /\ extract_page_info(all_pages[1]).err = ""
    /\ pages_info' = <<extract_page_info(all_pages[1]).val>>
    /\ pc' = "projected"
    /\ UNCHANGED <<env, dry_run, auto, has_more, start_cursor, all_pages,
                   requests, duplicates, confirm, gi, ri, archive_log>>

\* extract_page_info(page) raises
extract_page_info_raise ==
    /\ pc = "project"
    /\ extract_page_info(all_pages[1]).err # ""
    /\ pc' = "project_raise"
    /\ UNCHANGED <<env, dry_run, auto, has_more, start_cursor, all_pages,
                   requests, pages_info, duplicates, confirm, gi, ri,
                   archive_log>>

NextProjector ==
    \/ extract_page_info_return
    \/ extract_page_info_raise

SpecProjector == InitProjector /\ [][NextProjector]_vars

----------------------------------------------------------------------------
(* find_duplicates alone, on every bounded sequence of projected pages *)

InitGrouper ==
    /\ dry_run = FALSE
    /\ auto = FALSE
    /\ pc = "group"
    /\ has_more = FALSE
    /\ start_cursor = None
    /\ all_pages = <<>>
    /\ requests = <<>>
    /\ pages_info \in SeqUpTo(ProjectedPages, MaxLen)
    /\ duplicates = <<>>
    /\ confirm = Unread
    /\ gi = 1
    /\ ri = 1
    /\ archive_log = <<>>
    /\ responses = <<>>
    /\ store = <<>>
    /\ run = 1

find_duplicates_call ==
    /\ pc = "group"
    /\ duplicates' = find_duplicates(pages_info)
    /\ pc' = "grouped"
    /\ UNCHANGED <<env, dry_run, auto, has_more, start_cursor, all_pages, requests,
                   pages_info, confirm, gi, ri, archive_log>>

NextGrouper == find_duplicates_call

SpecGrouper == InitGrouper /\ [][NextGrouper]_vars

----------------------------------------------------------------------------
(* Properties of a run *)

Interactive == ~dry_run /\ ~auto

\* the key of a raw page: its title as projected
KeyOf(page) == strip(title_of(page).val)

\* no non-empty key is carried by two of the fetched pages
NoSharedKey ==
    \A i, j \in 1..Len(all_pages) :
        (i # j /\ KeyOf(all_pages[i]) = KeyOf(all_pages[j]))
            => KeyOf(all_pages[i]) = <<>>

\* the fetch has completed without error and main has taken its branches
Analysed == pc \notin {"fetch", "analyse", "read_abort"}

\* the identities of the remove lists, group after group
RECURSIVE RemoveIds(_)
RemoveIds(dups) ==
    IF dups = <<>> THEN <<>>
    ELSE [i \in 1..Len(Head(dups).remove) |-> Head(dups).remove[i].id]
         \o RemoveIds(Tail(dups))

ArchivedIds == [i \in 1..Len(archive_log) |-> archive_log[i].id]

\* C1: with --dry-run no archive call is ever issued, and once the pages are
\* fetched the run is in, or ends in, a state without mutation: "no
\* duplicates found" or "preview rendered".
C1_PreviewNeverArchives ==
    dry_run =>
        /\ archive_log = <<>>
        /\ Analysed => pc \in {"no_duplicates", "preview"}

C1_Witness ==
    /\ dry_run
    /\ pc = "preview"
    /\ duplicates # <<>>
    /\ archive_log = <<>>

\* C2: once an archive call has been issued, no step of the run issues a
\* query request.
C2_ReadsBeforeWrites ==
    [][archive_log # <<>> \/ archive_log' # <<>> => requests' = requests]_vars

C2_Witness ==
    /\ Len(requests) = 2
    /\ Len(archive_log) >= 2

\* C3: the archive attempts are, in order, the entries of the remove lists:
\* at any time a prefix of them, and all of them, each once, when the archive
\* loop has ended, whichever attempts failed.
C3_FaultIsolation ==
    /\ Len(ArchivedIds) <= Len(RemoveIds(duplicates))
    /\ ArchivedIds = SubSeq(RemoveIds(duplicates), 1, Len(ArchivedIds))
    /\ pc = "done" => ArchivedIds = RemoveIds(duplicates)

C3_Witness ==
    /\ pc = "done"
    /\ Len(duplicates) = 2
    /\ Len(archive_log) = 2
    /\ ~archive_log[1].ok
    /\ archive_log[2].ok
    /\ archive_log[1].id # archive_log[2].id

\* C4: when a query request has failed the run has aborted: nothing has been
\* projected or grouped and no archive call has been issued, in any mode.
C4_ReadFailureAborts ==
    (\E i \in 1..Len(requests) : requests[i].status = "error") =>
        /\ pc = "read_abort"
        /\ pages_info = <<>>
        /\ duplicates = <<>>
        /\ archive_log = <<>>

C4_Witness ==
    /\ pc = "read_abort"
    /\ Len(requests) = 2
    /\ requests[1].status = "ok"
    /\ requests[2].status = "error"
    /\ ~dry_run
    /\ auto

\* input lines that say yes
Affirmative ==
    {<<"y">>, <<" ", "Y", " ">>, <<"y", "e", "s">>}

C10_NoSharedKeyNoDuplicates ==
    (Analysed /\ NoSharedKey) =>
        /\ pc = "no_duplicates"
        /\ duplicates = <<>>
        /\ confirm = Unread
        /\ archive_log = <<>>

C10_Witness ==
    /\ pc = "no_duplicates"
    /\ ~dry_run
    /\ auto
    /\ Len(all_pages) = 3
    /\ \E i, j \in 1..Len(all_pages) :
          KeyOf(all_pages[i]) = <<>> /\ KeyOf(all_pages[j]) # <<>>

----------------------------------------------------------------------------
(* Properties of find_duplicates *)

Grouped == pc = "grouped"

\* positions of the input whose title is k
IndicesOf(k) == {i \in 1..Len(pages_info) : pages_info[i].title = k}

\* positions of the group of k that carry its greatest created_time
Latest(k) ==
    {i \in IndicesOf(k) :
        \A j \in IndicesOf(k) :
            ~StrLess(pages_info[i].created_time, pages_info[j].created_time)}

Min(S) == CHOOSE i \in S : \A j \in S : i <= j

\* position of the page the group of k is to keep
KeepIndex(k) == Min(Latest(k))

\* positions of the group of k other than the kept one
Rest(k) == IndicesOf(k) \ {KeepIndex(k)}

\* the pages at the positions S, in the order of the input
RECURSIVE InInputOrder(_)
InInputOrder(S) ==
    IF S = {} THEN <<>>
    ELSE <<pages_info[Min(S)]>> \o InInputOrder(S \ {Min(S)})

\* place of position i among the positions S when they are ordered by
\* descending created_time, equal ones by position
RankDescending(S, i) ==
    1 + Cardinality({j \in S :
            \/ StrLess(pages_info[i].created_time, pages_info[j].created_time)
            \/ /\ pages_info[j].created_time = pages_info[i].created_time
               /\ j < i})

GroupIndices == 1..Len(duplicates)

\* C6: in every group keep.created_time >= r.created_time for every r of
\* remove, and keep is the first page of the input among those of the group
\* that carry the greatest created_time.
C6_KeepIsLatestFirstSeen ==
    Grouped =>
        \A g \in GroupIndices :
            /\ \A r \in 1..Len(duplicates[g].remove) :
                  ~StrLess(duplicates[g].keep.created_time,
                           duplicates[g].remove[r].created_time)
            /\ duplicates[g].keep = pages_info[KeepIndex(duplicates[g].title)]

C6_Witness ==
    /\ Grouped
    /\ \E g \in GroupIndices :
          \E r \in 1..Len(duplicates[g].remove) :
              /\ duplicates[g].remove[r].created_time
                    = duplicates[g].keep.created_time
              /\ duplicates[g].remove[r].id # duplicates[g].keep.id
              /\ Len(duplicates[g].remove) = 2

RECURSIVE GroupMembers(_)
GroupMembers(dups) ==
    IF dups = <<>> THEN <<>>
    ELSE <<Head(dups).keep>> \o Head(dups).remove \o GroupMembers(Tail(dups))

Count(seq, x) == Cardinality({i \in 1..Len(seq) : seq[i] = x})

\* the key k is carried by at least two pages of the input
Shared(k) == Cardinality(IndicesOf(k)) >= 2

\* the group g holds the page x, as keep or in remove
InGroup(g, x) ==
    \/ duplicates[g].keep = x
    \/ \E r \in 1..Len(duplicates[g].remove) : duplicates[g].remove[r] = x

\* C8 as stated: every page with a non-empty key is in exactly one group,
\* and the pages with an empty key are in none.
C8_PartitionOfNonEmptyKeys ==
    Grouped =>
        \A i \in 1..Len(pages_info) :
            IF pages_info[i].title # <<>>
            THEN Cardinality({g \in GroupIndices : InGroup(g, pages_info[i])}) = 1
            ELSE \A g \in GroupIndices : ~InGroup(g, pages_info[i])

\* C8 amended: the groups partition the pages whose non-empty key is carried
\* by at least two pages: each of them is in the group of its key and in no
\* other, as often as it is in the input; a page whose key is empty or is
\* carried by no other page is in no group.
C8_PartitionOfSharedKeys ==
    Grouped =>
        /\ \A g, h \in GroupIndices :
              duplicates[g].title = duplicates[h].title => g = h
        /\ \A g \in GroupIndices :
              /\ duplicates[g].keep.title = duplicates[g].title
              /\ \A r \in 1..Len(duplicates[g].remove) :
                    duplicates[g].remove[r].title = duplicates[g].title
        /\ \A x \in ProjectedPages :
              Count(GroupMembers(duplicates), x) =
                 IF x.title # <<>> /\ Shared(x.title)
                 THEN Count(pages_info, x) ELSE 0

C8_Witness ==
    /\ Grouped
    /\ Len(duplicates) = 1
    /\ duplicates[1].title = <<"a">>
    /\ \E i \in 1..Len(pages_info) : pages_info[i].title = <<"b">>
    /\ Count(GroupMembers(duplicates), duplicates[1].keep) = 1

\* C9: there is a group for the key k exactly when k is not empty and at
\* least two pages of the input carry k.
C9_GroupsAreSharedKeys ==
    Grouped =>
        \A k \in Titles :
            (\E g \in GroupIndices : duplicates[g].title = k)
                <=> (k # <<>> /\ Shared(k))

C9_Witness ==
    /\ Grouped
    /\ Cardinality(IndicesOf(<<"a">>)) = 1
    /\ Cardinality(IndicesOf(<<"b">>)) = 2
    /\ Len(duplicates) = 1
    /\ duplicates[1].title = <<"b">>

----------------------------------------------------------------------------
(* Further properties of a run *)

Unattended == ~dry_run /\ auto

\* C11: with --auto and without --dry-run, once the analysis has found a
\* group the run is in the archive loop or past it, no line of input was
\* read, and when the loop has ended every entry of every remove list has
\* been attempted.
C11_UnattendedArchivesAll ==
    (Unattended /\ Analysed /\ duplicates # <<>>) =>
        /\ confirm = Unread
        /\ pc \in {"archive", "done"}
        /\ pc = "done" => ArchivedIds = RemoveIds(duplicates)

C11_Witness ==
    /\ Unattended
    /\ pc = "done"
    /\ Len(duplicates) = 2
    /\ Len(archive_log) = 2
    /\ confirm = Unread

\* the run is in the archive loop, or has been
InExecutor == pc = "archive" \/ archive_log # <<>>

\* C13 as stated: on every raw page, whichever of the identity, the
\* properties, the title property, the body property, created_time and url
\* is missing or malformed, extract_page_info raises nothing and returns a
\* record whose missing fields are the empty string.
C13_ExtractIsTotal ==
    /\ pc # "project_raise"
    /\ pc = "projected" =>
          /\ pages_info[1].created_time # NoneStr
          /\ pages_info[1].url # NoneStr

\* C14: a run that has reached the archive loop is in it or in "retirement
\* attempted", never elsewhere; in the loop attempts are still due, and at
\* the end the outcomes are as many as the entries of the remove lists,
\* whichever calls failed.
C14_ExecutorEndsAttempted ==
    /\ InExecutor => pc \in {"archive", "done"}
    /\ pc = "archive" => Len(archive_log) < Len(RemoveIds(duplicates))
    /\ pc = "done" => Len(archive_log) = Len(RemoveIds(duplicates))

\* an identity is archived and a second call on it is rejected
C14_Witness ==
    /\ pc = "done"
    /\ Len(archive_log) = 2
    /\ archive_log[1].id = archive_log[2].id
    /\ archive_log[1].ok
    /\ ~archive_log[2].ok

\* position of the first page of the input whose title is k
FirstIndex(k) == Min(IndicesOf(k))

\* archive attempts made before the entry r of the group g is reached
AttemptsBefore(g, r) == Len(RemoveIds(SubSeq(duplicates, 1, g - 1))) + r - 1

\* C15: the groups are in the order in which their keys first occur in the
\* input, and the archive loop goes through the groups in that order.
C15_GroupsInFirstSeenOrder ==
    Analysed =>
        /\ \A g, h \in GroupIndices :
              g < h => FirstIndex(duplicates[g].title)
                          < FirstIndex(duplicates[h].title)
        /\ pc = "archive" =>
              /\ gi \in GroupIndices
              /\ Len(archive_log) = AttemptsBefore(gi, ri)

C15_Witness ==
    /\ pc = "done"
    /\ Len(pages_info) = 4
    /\ pages_info[1].title = <<"a">>
    /\ pages_info[2].title = <<"b">>
    /\ pages_info[3].title = <<"b">>
    /\ pages_info[4].title = <<"a">>
    /\ Len(duplicates) = 2
    /\ duplicates[1].title = <<"a">>
    /\ duplicates[2].title = <<"b">>

\* C17 as stated: no archive call is issued for the identity of the keep of
\* a group.
C17_KeepNeverArchived ==
    \A i \in 1..Len(archive_log) :
        \A g \in GroupIndices : archive_log[i].id # duplicates[g].keep.id

\* C18: with --dry-run and --auto together no archive call is issued and no
\* line is read, and a run that has found a group ends in "preview rendered".
C18_PreviewOverAuto ==
    (dry_run /\ auto) =>
        /\ archive_log = <<>>
        /\ confirm = Unread
        /\ (Analysed /\ duplicates # <<>>) => pc = "preview"

C18_Witness ==
    /\ dry_run
    /\ auto
    /\ pc = "preview"
    /\ Len(duplicates) = 2

----------------------------------------------------------------------------
(* Properties of get_all_pages *)

\* the results of the answers, one after the other
RECURSIVE Concatenation(_)
Concatenation(answers) ==
    IF answers = <<>> THEN <<>>
    ELSE Head(answers).results \o Concatenation(Tail(answers))

\* C12: as long as no request has failed, the requests are as many as the
\* answers; the first request carries no cursor and every later one the
\* next_cursor of the answer before it; every answer but the last had
\* has_more true; the loop goes on exactly when the last answer had has_more
\* true, and on return all_pages is the concatenation of the results of the
\* answers in the order of the requests.
C12_PaginationProtocol ==
    pc \in {"fetch", "analyse"} =>
        /\ Len(requests) = Len(responses)
        /\ requests # <<>> => requests[1].start_cursor = None
        /\ \A i \in 2..Len(requests) :
              requests[i].start_cursor
                 = dict_get(responses[i - 1].next_cursor, None)
        /\ \A i \in 1..(Len(responses) - 1) : responses[i].has_more = <<TRUE>>
        /\ (pc = "fetch" /\ responses # <<>>) =>
              responses[Len(responses)].has_more = <<TRUE>>
        /\ pc = "analyse" =>
              /\ responses # <<>>
              /\ responses[Len(responses)].has_more # <<TRUE>>
              /\ all_pages = Concatenation(responses)

C12_Witness ==
    /\ pc = "analyse"
    /\ Len(responses) = 2
    /\ responses[1].next_cursor = <<1>>
    /\ requests[2].start_cursor = 1
    /\ responses[1].results # <<>>
    /\ responses[2].results # <<>>
    /\ responses[1].results # responses[2].results
    /\ responses[2].has_more = <<>>

\* positions of main from which the script goes on
Running == {"fetch", "analyse", "confirm", "archive"}

\* states in which a run has ended according to the list of terminal states
ListedTerminal == {"no_duplicates", "preview", "aborted", "done", "read_abort"}

\* C19 as stated: a run that has come to its end is in one of the terminal
\* states "no duplicates found", "preview rendered", "aborted by user",
\* "retirement attempted" or the fatal read abort.
C19_EndsInListedState ==
    pc \notin Running => pc \in ListedTerminal

----------------------------------------------------------------------------
(* Properties of two runs in a row *)

\* rows of the store that are archived
ArchivedRows == {i \in 1..Len(store) : store[i].archived}

\* C20: in the run that follows an unattended run whose archive calls all
\* succeeded, against a store of pages with identities of their own that
\* leaves archived pages out, the pages fetched are the pages that are not
\* archived, no two of them share a non-empty key, no archive call is issued
\* and the run ends in "no duplicates found".
C20_SecondRunFindsNothing ==
    run = 2 =>
        /\ archive_log = <<>>
        /\ pc # "fetch" =>
              /\ all_pages = LivePages(store)
              /\ NoSharedKey
        /\ Analysed => pc = "no_duplicates"

C20_Witness ==
    /\ run = 2
    /\ pc = "no_duplicates"
    /\ Cardinality(ArchivedRows) = 2
    /\ Len(all_pages) = 2
    /\ Len(requests) = 2
    /\ \A i \in 1..Len(all_pages) : KeyOf(all_pages[i]) # <<>>

====
